---- MODULE Spec2Model ----
(***************************************************************************)
(* Model of src/Flask/simple_app.py: the POST /generate_plan handler       *)
(* generate_workout_plan, with the two module-level objects it reads       *)
(* (model, exercise_data).                                                 *)
(*                                                                         *)
(* Representation choices:                                                 *)
(*  - a date is its day ordinal (datetime.toordinal, counted here from     *)
(*    2024-01-01 = 0); start_date + timedelta(days=i) is start_date + i.   *)
(*    strftime('%Y-%m-%d') is one-to-one on dates, so the keys of          *)
(*    workout_plan are the ordinals.                                       *)
(*  - the catalog (exercise_data) is a sequence of rows; a row is known by *)
(*    its index.  Only the columns the handler branches on or converts are *)
(*    kept: Workout_Type, Difficulty Level, Sets (Reps is converted the    *)
(*    same way as Sets; the other columns are copied).  The catalog is     *)
(*    taken to have all the columns the handler reads.                     *)
(*  - DataFrame.sample(k) draws k distinct rows in a random order.  The    *)
(*    k rows are any k-subset; they are listed by ascending index.         *)
(*  - model.predict is an external classifier: it returns any label or     *)
(*    raises.                                                              *)
(***************************************************************************)
EXTENDS Integers, Sequences, FiniteSets, TLC

VARIABLES
    model,              \* module-level: "loaded" or "None"
    exercise_data,      \* module-level: [loaded, rows]
    pc,                 \* position in the handler
    request,            \* the JSON body of the request being handled
    user_data,          \* request.json['user_profile'] (BMI added when absent)
    start_date,         \* parsed start date (ordinal)
    plan_duration_days,
    workout_frequency,
    workout_type,       \* the predicted label
    workout_days,       \* sequence of dates
    workout_plan,       \* function: date -> sequence of exercise dicts
    day_index,          \* position of the "for day in workout_days" loop
    response,           \* the response returned
    predict_calls,      \* history: model.predict calls made for this request
    topup_reached       \* history: lines 123-126 were executed for this request

vars == <<model, exercise_data, pc, request, user_data, start_date,
          plan_duration_days, workout_frequency, workout_type, workout_days,
          workout_plan, day_index, response, predict_calls, topup_reached>>

----------------------------------------------------------------------------
(* Bounds of the model *)

\* largest catalog of the plan-builder specification
MaxRows == 7
\* largest catalog of the request-level specification
MaxSmallRows == 1
\* largest plan_duration_days / workout frequency a request states explicitly
MaxDuration == 7
\* largest number of required profile fields a request leaves out
MaxMissing == 1

(* Program constants *)

MinExercises == 6
DefaultDuration == 7
DefaultFrequency == 4


----------------------------------------------------------------------------
(* Values *)

Max(a, b) == IF a >= b THEN a ELSE b
Min(a, b) == IF a <= b THEN a ELSE b

\* Python's a // b on integers (floor division), b # 0
PyFloorDiv(a, b) == IF b > 0 THEN a \div b ELSE (-a) \div (-b)

\* float(x) on a JSON value: the numeric texts parse, the others raise
PyFloat(x) ==
    CASE x = "80" -> [ok |-> TRUE, val |-> 80]
      [] x = "2"  -> [ok |-> TRUE, val |-> 2]
      [] x = "0"  -> [ok |-> TRUE, val |-> 0]
      [] OTHER    -> [ok |-> FALSE, val |-> 0]

\* int(x) on a catalog cell: a number converts, NaN raises
PyInt(x) ==
    CASE x = "3" -> [ok |-> TRUE, val |-> 3]
      [] OTHER   -> [ok |-> FALSE, val |-> 0]

\* datetime.strptime(s, '%Y-%m-%d'), as a day ordinal
ParseDate(s) ==
    CASE s = "2024-01-01" -> [ok |-> TRUE, val |-> 0]
      [] s = "2024-02-28" -> [ok |-> TRUE, val |-> 58]
      [] s = "2024-04-10" -> [ok |-> TRUE, val |-> 100]
      [] OTHER            -> [ok |-> FALSE, val |-> 0]

\* datetime.now().strftime('%Y-%m-%d')
TodayStr == "2024-04-10"

WorkoutTypes == {"Cardio", "Strength"}
DifficultyLevels == {"Beginner", "Advanced"}
SetsCells == {"3", "nan"}
\* labels the classifier may return: the catalog's types and one that is absent
Labels == WorkoutTypes \cup {"Yoga"}
\* Fitness_Level values of requests: one of the catalog and one that is absent
FitnessLevels == {"Beginner", "Intermediate"}

----------------------------------------------------------------------------
(* Catalogs: load_exercise_data *)

NumKinds == Cardinality(WorkoutTypes) * Cardinality(DifficultyLevels) * Cardinality(SetsCells)

RowKind(k) ==
    [type  |-> IF k \div 4 = 0 THEN "Cardio" ELSE "Strength",
     level |-> IF (k \div 2) % 2 = 0 THEN "Beginner" ELSE "Advanced",
     sets  |-> IF k % 2 = 0 THEN "3" ELSE "nan"]

\* the non-decreasing sequences of kind numbers of length n: one catalog per
\* multiset of rows (the handler never reads the order of the rows)
RECURSIVE KindSeqs(_)
KindSeqs(n) ==
    IF n = 0 THEN {<<>>}
    ELSE UNION {{Append(s, k) :
                    k \in (IF Len(s) = 0 THEN 0 ELSE s[Len(s)])..(NumKinds - 1)} :
                s \in KindSeqs(n - 1)}

\* the catalogs of at most n rows
Catalogs(n) ==
    UNION {{[j \in 1..m |-> RowKind(s[j])] : s \in KindSeqs(m)} : m \in 0..n}

\* the module-level exercise_data: a loaded table, or None when the load failed
LoadedData(rows) == [loaded |-> TRUE, rows |-> rows]
NoData == [loaded |-> FALSE, rows |-> <<>>]

----------------------------------------------------------------------------
(* Requests *)

required_fields == <<"Age", "Gender", "Weight (kg)", "Height (m)", "Fitness_Level">>
RequiredSet == {required_fields[i] : i \in 1..Len(required_fields)}
FrequencyKey == "Workout_Frequency (days/week)"

\* a user_profile: the keys it has, and the values of the keys the handler reads
Profile(keys, weight, height, fitness, bmi, frequency) ==
    [keys |-> keys, weight |-> weight, height |-> height, fitness |-> fitness,
     bmi |-> bmi, frequency |-> frequency]

\* a request body: its keys beside user_profile, and the values
Body(profile, keys, start, duration) ==
    [user_profile |-> profile, keys |-> keys, start_date |-> start,
     plan_duration_days |-> duration]

\* requests that vary the profile: fields left out, weight and height texts,
\* BMI given or not; schedule left to the defaults or a start date given
ProfileRequests ==
    {Body(Profile((RequiredSet \ missing) \cup bmikey, w, h, "Beginner",
                  IF bmikey = {} THEN 0 ELSE 22, 0),
          IF sd = "" THEN {} ELSE {"start_date"}, sd, 0) :
        missing \in {m \in SUBSET RequiredSet : Cardinality(m) <= MaxMissing},
        bmikey \in {{}, {"BMI"}},
        w \in {"80", "abc"},
        h \in {"2", "0", "abc"},
        sd \in {"", "2024-02-28", "2024-13-40"}}

\* requests with a complete numeric profile that vary the schedule
ScheduleRequests ==
    {Body(Profile(RequiredSet \cup {FrequencyKey}, "80", "2", fit, 0, f),
          {"start_date", "plan_duration_days"}, sd, d) :
        fit \in FitnessLevels,
        f \in (-1)..(MaxDuration + 1),
        sd \in {"2024-01-01", "2024-02-28"},
        d \in (-1)..MaxDuration}

Requests == ProfileRequests \cup ScheduleRequests

\* plan_duration_days of the plan-builder specification: plans of one and of
\* two days (the days of a plan are built one by one, each from the catalog)
PlanDurations == {1, 2}

\* requests of the plan-builder specification: valid profile, default frequency
PlanRequests ==
    {Body(Profile(RequiredSet, "80", "2", fit, 0, 0),
          {"start_date", "plan_duration_days"}, "2024-01-01", d) :
        fit \in FitnessLevels,
        d \in PlanDurations}

NoRequest == Body(Profile({}, "", "", "", 0, 0), {}, "", 0)

----------------------------------------------------------------------------
(* Responses: jsonify(...), status *)

NoResponse == [status |-> 0]

UnavailableResponse ==
    [status |-> 500, error |-> "Model or exercise data not loaded"]
MissingFieldsResponse(missing_fields) ==
    [status |-> 400, error |-> "Missing required fields",
     missing_fields |-> missing_fields]
InvalidNumbersResponse ==
    [status |-> 400, error |-> "Invalid weight or height values"]
InvalidDateResponse ==
    [status |-> 400, error |-> "Invalid start date format. Use YYYY-MM-DD"]
SuccessResponse(type, plan) ==
    [status |-> 200, result |-> "success", workout_type |-> type,
     workout_plan |-> plan]
\* mutant: the error response carries the days built so far
FailedResponse_WithPartialPlan(message) ==
    [status |-> 500, error |-> "Failed to generate workout plan",
     message |-> message, workout_plan |-> workout_plan]

FailedResponse(message) ==
    [status |-> 500, error |-> "Failed to generate workout plan",
     message |-> message]

----------------------------------------------------------------------------
(* Day selection: lines 106-126 *)

\* mutant: the enumeration starts one day late (range(1, plan_duration_days + 1))
AllDays_FromNextDay(start, duration) ==
    [i \in 1..Max(duration, 0) |-> start + i]

\* all_days = [start_date + timedelta(days=i) for i in range(plan_duration_days)]
AllDays(start, duration) == [i \in 1..Max(duration, 0) |-> start + (i - 1)]

\* mutant: the spacing is rounded up instead of down
DaysBetweenWorkouts_Ceiling(duration, frequency) ==
    IF frequency = 0
    THEN [ok |-> FALSE, val |-> 0]
    ELSE [ok |-> TRUE,
          val |-> Max(1, PyFloorDiv(duration + frequency - 1, frequency))]

\* mutant: a zero frequency is guarded instead of dividing by it
DaysBetweenWorkouts_ZeroGuarded(duration, frequency) ==
    IF frequency = 0
    THEN [ok |-> TRUE, val |-> 1]
    ELSE [ok |-> TRUE, val |-> Max(1, PyFloorDiv(duration, frequency))]

\* days_between_workouts = max(1, plan_duration_days // workout_frequency);
\* the division raises ZeroDivisionError when workout_frequency is 0
DaysBetweenWorkouts(duration, frequency) ==
    IF frequency = 0
    THEN [ok |-> FALSE, val |-> 0]
    ELSE [ok |-> TRUE, val |-> Max(1, PyFloorDiv(duration, frequency))]

\* for i in range(0, plan_duration_days, days_between_workouts):
\*     if len(workout_days) < workout_frequency: workout_days.append(all_days[i])
\*     else: break
RECURSIVE SpacedLoop(_, _, _, _, _, _)
SpacedLoop(i, acc, all_days, duration, step, frequency) ==
    IF i >= duration THEN acc
    ELSE IF Len(acc) < frequency
         THEN SpacedLoop(i + step, Append(acc, all_days[i + 1]), all_days,
                         duration, step, frequency)
         ELSE acc

SeqToSet(s) == {s[i] : i \in 1..Len(s)}

\* the k-element subsets of S: what a sample of k without replacement may draw
KSubsets(S, k) == {X \in SUBSET S : Cardinality(X) = k}

\* the elements of a set of integers in ascending order
RECURSIVE Ascending(_)
Ascending(S) ==
    IF S = {} THEN <<>>
    ELSE LET m == CHOOSE x \in S : \A y \in S : x <= y
         IN <<m>> \o Ascending(S \ {m})

\* remaining_days = [d for d in all_days if d not in workout_days]
RemainingDays(all_days, days) == SeqToSet(all_days) \ SeqToSet(days)

\* workout_days.extend(additional_days); workout_days.sort()
ExtendAndSort(days, additional) ==
    SortSeq(days \o Ascending(additional), LAMBDA a, b : a < b)

----------------------------------------------------------------------------
(* Per-day exercise selection: lines 139-176, and formatting: lines 179-190 *)

\* exercise_data[exercise_data['Workout_Type'] == workout_type]
PrimaryRows(rows, type) == {i \in DOMAIN rows : rows[i].type = type}

\* all_workout_types = exercise_data['Workout_Type'].unique().tolist()
AllWorkoutTypes(rows) == {rows[i].type : i \in DOMAIN rows}

\* mutant: the predicted type is not excluded from the top-up rows
OtherRows_AllTypes(rows, type) == DOMAIN rows

\* other_types = [t for t in all_workout_types if t != workout_type]
\* other_exercises = exercise_data[exercise_data['Workout_Type'].isin(other_types)]
OtherRows(rows, type) ==
    LET other_types == {t \in AllWorkoutTypes(rows) : t # type}
    IN {i \in DOMAIN rows : rows[i].type \in other_types}

\* mutant: the narrowing is kept even when it is empty
FilterByDifficulty_NoFallback(rows, S, fitness_level) ==
    {i \in S : rows[i].level = fitness_level}

\* the difficulty filter with its fallback: lines 142-145 and 168-171
FilterByDifficulty(rows, S, fitness_level) ==
    LET level_rows == {i \in S : rows[i].level = fitness_level}
    IN IF S # {} /\ level_rows # {} THEN level_rows ELSE S

\* the values day_exercises may take at line 178 (sequences of row indices)
DayExercises(rows, type, fitness_level) ==
    LET primary == FilterByDifficulty(rows, PrimaryRows(rows, type), fitness_level)
    IN IF Cardinality(primary) >= MinExercises
       THEN {Ascending(S) :
                S \in KSubsets(primary, Min(MinExercises, Cardinality(primary)))}
       ELSE LET remaining_needed == MinExercises - Cardinality(primary)
                other == FilterByDifficulty(rows, OtherRows(rows, type),
                                            fitness_level)
            IN IF remaining_needed > 0 /\ other # {}
               THEN {Ascending(primary) \o Ascending(A) :
                        A \in KSubsets(other,
                                       Min(remaining_needed, Cardinality(other)))}
               ELSE {Ascending(primary)}

\* the loop over day_exercises.iterrows(): int(exercise['Sets']) raises on a
\* cell that is no number; otherwise one dict per row, in order
FormatExercises(rows, day_exercises) ==
    IF \E j \in 1..Len(day_exercises) : ~PyInt(rows[day_exercises[j]].sets).ok
    THEN [ok |-> FALSE, list |-> <<>>]
    ELSE [ok |-> TRUE,
          list |-> [j \in 1..Len(day_exercises) |->
                      [row |-> day_exercises[j],
                       sets |-> PyInt(rows[day_exercises[j]].sets).val,
                       difficulty_level |-> rows[day_exercises[j]].level,
                       workout_type |-> rows[day_exercises[j]].type]]]

----------------------------------------------------------------------------
(* The handler *)

\* the per-request variables between requests
Idle ==
    /\ pc = "idle"
    /\ request = NoRequest
    /\ user_data = NoRequest.user_profile
    /\ start_date = 0
    /\ plan_duration_days = 0
    /\ workout_frequency = 0
    /\ workout_type = ""
    /\ workout_days = <<>>
    /\ workout_plan = <<>>
    /\ day_index = 0
    /\ response = NoResponse
    /\ predict_calls = 0
    /\ topup_reached = FALSE

\* model = load_model(); exercise_data = load_exercise_data(): either load may
\* fail and leave None
Init ==
    /\ model \in {"loaded", "None"}
    /\ exercise_data \in {NoData} \cup {LoadedData(c) : c \in Catalogs(MaxSmallRows)}
    /\ Idle

InitPlan ==
    /\ model = "loaded"
    /\ exercise_data \in {LoadedData(c) : c \in Catalogs(MaxRows)}
    /\ Idle

\* return of a response before the try block
Return(req, resp) ==
    /\ request' = req
    /\ response' = resp
    /\ pc' = "done"
    /\ UNCHANGED <<model, exercise_data, user_data, start_date,
                   plan_duration_days, workout_frequency, workout_type,
                   workout_days, workout_plan, day_index, predict_calls,
                   topup_reached>>

\* missing_fields = [field for field in required_fields if field not in user_data]
MissingFields(profile) ==
    SelectSeq(required_fields, LAMBDA field : field \notin profile.keys)

\* lines 69-77: the weight and height are converted only when BMI is absent;
\* a conversion that raises, or a zero height, ends in the bare except
BMICheck(profile) ==
    IF "BMI" \in profile.keys
    THEN [ok |-> TRUE, profile |-> profile]
    ELSE LET weight == PyFloat(profile.weight)
             height == PyFloat(profile.height)
         IN IF weight.ok /\ height.ok /\ height.val # 0
            THEN [ok |-> TRUE,
                  profile |-> [profile EXCEPT
                      !.keys = @ \cup {"BMI"},
                      !.bmi = weight.val \div (height.val * height.val)]]
            ELSE [ok |-> FALSE, profile |-> profile]

\* request.json.get('start_date', datetime.now().strftime('%Y-%m-%d'))
StartDateStr(req) ==
    IF "start_date" \in req.keys THEN req.start_date ELSE TodayStr

\* int(request.json.get('plan_duration_days', 7))
PlanDurationDays(req) ==
    IF "plan_duration_days" \in req.keys THEN req.plan_duration_days
    ELSE DefaultDuration

\* int(user_data.get('Workout_Frequency (days/week)', 4))
WorkoutFrequency(profile) ==
    IF FrequencyKey \in profile.keys THEN profile.frequency ELSE DefaultFrequency

\* lines 50-91: availability check, validation, defaults
HandleRequest(req) ==
    /\ pc = "idle"
    /\ IF model = "None" \/ ~exercise_data.loaded
       THEN Return(req, UnavailableResponse)
       ELSE IF MissingFields(req.user_profile) # <<>>
       THEN Return(req, MissingFieldsResponse(MissingFields(req.user_profile)))
       ELSE IF ~BMICheck(req.user_profile).ok
       THEN Return(req, InvalidNumbersResponse)
       ELSE IF ~ParseDate(StartDateStr(req)).ok
       THEN Return(req, InvalidDateResponse)
       ELSE /\ request' = req
            /\ user_data' = BMICheck(req.user_profile).profile
            /\ start_date' = ParseDate(StartDateStr(req)).val
            /\ plan_duration_days' = PlanDurationDays(req)
            /\ workout_frequency' = WorkoutFrequency(req.user_profile)
            /\ pc' = "predict"
            /\ UNCHANGED <<model, exercise_data, workout_type, workout_days,
                           workout_plan, day_index, response, predict_calls,
                           topup_reached>>

\* the except clause of lines 200-205
Raise(message) ==
    /\ response' = FailedResponse(message)
    /\ pc' = "done"

\* lines 96-99: workout_type = model.predict(user_df)[0]; the classifier
\* returns a label or raises
Predict ==
    /\ pc = "predict"
    /\ predict_calls' = predict_calls + 1
    /\ \E outcome \in Labels \cup {"raise"} :
          IF outcome = "raise"
          THEN Raise("predict") /\ UNCHANGED workout_type
          ELSE workout_type' = outcome /\ pc' = "select_days"
                                       /\ UNCHANGED response
    /\ UNCHANGED <<model, exercise_data, request, user_data, start_date,
                   plan_duration_days, workout_frequency, workout_days,
                   workout_plan, day_index, topup_reached>>

Selected(days, topup) ==
    /\ workout_days' = days
    /\ topup_reached' = topup
    /\ day_index' = 1
    /\ pc' = "build_day"
    /\ UNCHANGED response

\* lines 106-126
SelectDays ==
    /\ pc = "select_days"
    /\ LET all_days == AllDays(start_date, plan_duration_days)
           between == DaysBetweenWorkouts(plan_duration_days, workout_frequency)
           spaced == SpacedLoop(0, <<>>, all_days, plan_duration_days,
                                between.val, workout_frequency)
           remaining_days == RemainingDays(all_days, spaced)
       IN IF workout_frequency >= plan_duration_days
          THEN Selected(all_days, FALSE)
          ELSE IF ~between.ok
          THEN Raise("ZeroDivisionError")
               /\ UNCHANGED <<workout_days, topup_reached, day_index>>
          ELSE IF Len(spaced) < workout_frequency
          THEN \E additional_days \in
                    KSubsets(remaining_days,
                             Min(workout_frequency - Len(spaced),
                                 Cardinality(remaining_days))) :
                  Selected(ExtendAndSort(spaced, additional_days), TRUE)
          ELSE Selected(spaced, FALSE)
    /\ UNCHANGED <<model, exercise_data, request, user_data, start_date,
                   plan_duration_days, workout_frequency, workout_type,
                   workout_plan, predict_calls>>

\* one iteration of "for day in workout_days": lines 135-192
BuildDay ==
    /\ pc = "build_day"
    /\ day_index <= Len(workout_days)
    /\ \E day_exercises \in DayExercises(exercise_data.rows, workout_type,
                                         user_data.fitness) :
          LET formatted == FormatExercises(exercise_data.rows, day_exercises)
          IN IF formatted.ok
             THEN /\ workout_plan' =
                        (workout_days[day_index] :> formatted.list) @@ workout_plan
                  /\ day_index' = day_index + 1
                  /\ UNCHANGED <<pc, response>>
             ELSE /\ Raise("ValueError")
                  /\ UNCHANGED <<workout_plan, day_index>>
    /\ UNCHANGED <<model, exercise_data, request, user_data, start_date,
                   plan_duration_days, workout_frequency, workout_type,
                   workout_days, predict_calls, topup_reached>>

\* lines 194-198: the loop is over
Respond ==
    /\ pc = "build_day"
    /\ day_index > Len(workout_days)
    /\ response' = SuccessResponse(workout_type, workout_plan)
    /\ pc' = "done"
    /\ UNCHANGED <<model, exercise_data, request, user_data, start_date,
                   plan_duration_days, workout_frequency, workout_type,
                   workout_days, workout_plan, day_index, predict_calls,
                   topup_reached>>

\* the response is sent; the server waits for the next request
NextRequest ==
    /\ pc = "done"
    /\ pc' = "idle"
    /\ request' = NoRequest
    /\ user_data' = NoRequest.user_profile
    /\ start_date' = 0
    /\ plan_duration_days' = 0
    /\ workout_frequency' = 0
    /\ workout_type' = ""
    /\ workout_days' = <<>>
    /\ workout_plan' = <<>>
    /\ day_index' = 0
    /\ response' = NoResponse
    /\ predict_calls' = 0
    /\ topup_reached' = FALSE
    /\ UNCHANGED <<model, exercise_data>>

Next ==
    \/ \E req \in Requests : HandleRequest(req)
    \/ Predict
    \/ SelectDays
    \/ BuildDay
    \/ Respond
    \/ NextRequest

NextPlan ==
    \/ \E req \in PlanRequests : HandleRequest(req)
    \/ Predict
    \/ SelectDays
    \/ BuildDay
    \/ Respond
    \/ NextRequest

Spec == Init /\ [][Next]_vars

SpecPlan == InitPlan /\ [][NextPlan]_vars

----------------------------------------------------------------------------
(* Properties *)

Catalog == exercise_data.rows

Succeeded == pc = "done" /\ response.status = 200

\* the day lists of the plan a success response carries
ReturnedLists ==
    IF Succeeded
    THEN {response.workout_plan[d] : d \in DOMAIN response.workout_plan}
    ELSE {}

\* the catalog rows a day list names
RowsOf(list) == {list[j].row : j \in 1..Len(list)}

\* day selection has completed for the request being handled
PastSelection == pc = "build_day" \/ Succeeded

\* C1: in every success response, when the catalog has at least 6 rows in
\* total, every day's exercise list has exactly 6 entries.
C1_ExactlySixFromSixRowCatalog ==
    (Succeeded /\ Len(Catalog) >= 6) =>
        \A list \in ReturnedLists : Len(list) = 6

\* C2: for every request that passed validation with 0 <= workout_frequency <
\* plan_duration_days (the claim, on the frequencies that can be a number of
\* days), day selection does not fail, and the workout days number
\* min(workout_frequency, plan_duration_days), are distinct and lie within
\* [start_date, start_date + plan_duration_days - 1]; the keys of a returned
\* workout_plan are those days.
C2_DaysWhenFrequencyBelowDuration ==
    (0 <= workout_frequency /\ workout_frequency < plan_duration_days) =>
        /\ ~(pc = "done" /\ response = FailedResponse("ZeroDivisionError"))
        /\ PastSelection =>
              /\ Len(workout_days) = Min(workout_frequency, plan_duration_days)
              /\ Cardinality(SeqToSet(workout_days)) = Len(workout_days)
              /\ \A d \in SeqToSet(workout_days) :
                    start_date <= d /\ d <= start_date + plan_duration_days - 1
        /\ Succeeded => DOMAIN response.workout_plan = SeqToSet(workout_days)

\* C3: in every success response to a request with workout_frequency >=
\* plan_duration_days, the keys of workout_plan are exactly the
\* plan_duration_days consecutive dates starting at start_date.
C3_EveryDayWhenFrequencyCoversDuration ==
    (Succeeded /\ workout_frequency >= plan_duration_days) =>
        DOMAIN response.workout_plan =
            {start_date + i : i \in 0..(plan_duration_days - 1)}

C3_Witness ==
    /\ Succeeded
    /\ plan_duration_days = 7
    /\ workout_frequency = 7
    /\ Cardinality(DOMAIN response.workout_plan) = 7

\* C4: in every success response, no day's exercise list names a catalog row
\* more than once.
C4_NoDuplicateRows ==
    \A list \in ReturnedLists :
        \A i, j \in 1..Len(list) : i # j => list[i].row # list[j].row

\* a returned day list that holds rows of the predicted type and top-up rows
C4_Witness ==
    \E list \in ReturnedLists :
        /\ \E j \in 1..Len(list) : list[j].workout_type = workout_type
        /\ \E j \in 1..Len(list) : list[j].workout_type # workout_type

\* C5: in every success response, when the catalog has fewer than 6 rows in
\* total, every day's exercise list has as many entries as the catalog has rows.
C5_WholeCatalogWhenShort ==
    (Succeeded /\ Len(Catalog) < 6) =>
        \A list \in ReturnedLists : Len(list) = Len(Catalog)

\* the request being handled has every required field and a weight or height
\* that is no number
NonNumericRequest ==
    /\ request # NoRequest
    /\ RequiredSet \subseteq request.user_profile.keys
    /\ request.user_profile.weight = "abc" \/ request.user_profile.height = "abc"

\* C6: with the model and catalog loaded, a request that has every required
\* field and a non-numeric weight or height never reaches the classifier and
\* is answered with status 400, with or without a BMI field.
C6_NonNumericRejected ==
    (model = "loaded" /\ exercise_data.loaded /\ NonNumericRequest) =>
        /\ predict_calls = 0
        /\ pc = "done" => response.status = 400

\* C7: a request that entered plan generation ends either with a success
\* response whose workout_plan has a list for every selected workout day, or
\* with a status 500 response of exactly the fields error and message, without
\* any workout_plan.
C7_AllOrNothing ==
    (pc = "done" /\ predict_calls > 0) =>
        \/ /\ response.status = 200
           /\ DOMAIN response.workout_plan = SeqToSet(workout_days)
        \/ /\ response.status = 500
           /\ DOMAIN response = {"status", "error", "message"}
           /\ response.error = "Failed to generate workout plan"

\* a request that failed on a later day, after earlier days had been built
C7_Witness ==
    /\ pc = "done"
    /\ response.status = 500
    /\ DOMAIN workout_plan # {}

\* the rows of the predicted type (C8_P) and of every other type (C8_C), each
\* narrowed to the request's fitness level unless the narrowing is empty
C8_Narrow(S) ==
    LET N == {i \in S : Catalog[i].level = request.user_profile.fitness}
    IN IF N = {} THEN S ELSE N
C8_P == C8_Narrow({i \in 1..Len(Catalog) : Catalog[i].type = workout_type})
C8_C == C8_Narrow({i \in 1..Len(Catalog) : Catalog[i].type # workout_type})

C9_EvenlySpacedDays ==
    (PastSelection /\ 1 <= workout_frequency
                   /\ workout_frequency < plan_duration_days) =>
        /\ workout_days =
              [i \in 1..workout_frequency |->
                  start_date + (i - 1) * (plan_duration_days \div workout_frequency)]
        /\ ~topup_reached
        /\ Succeeded => DOMAIN response.workout_plan = SeqToSet(workout_days)

\* days two or more apart, returned
C9_Witness ==
    /\ Succeeded
    /\ 2 <= workout_frequency
    /\ 2 * workout_frequency <= plan_duration_days
    /\ DOMAIN response.workout_plan = SeqToSet(workout_days)

\* C10: a request that passed validation with workout_frequency = 0 and
\* plan_duration_days >= 1 ends with status 500, 'Failed to generate workout
\* plan', after the classifier was called; it never ends in a success.
C10_ZeroFrequencyFails ==
    (pc = "done" /\ workout_frequency = 0 /\ plan_duration_days >= 1) =>
        /\ response.status = 500
        /\ response.error = "Failed to generate workout plan"
        /\ predict_calls >= 1

\* the division by zero itself ended the request
C10_Witness ==
    /\ pc = "done"
    /\ workout_frequency = 0
    /\ plan_duration_days >= 1
    /\ workout_type # ""
    /\ response = FailedResponse("ZeroDivisionError")

====
